---- MODULE Spec2Model ----
(***************************************************************************)
(* Model of controllers/twitch.go: the cached Twitch access token (one    *)
(* key of a bbolt bucket), its validate/refresh lifecycle and the          *)
(* streaming-status query that borrows it.                                 *)
(*                                                                         *)
(* A caller is a goroutine running one of the functions of the file.  Its  *)
(* frame holds the function's locals, the line it is at (pc) and, for the  *)
(* properties, what the invocation has done so far (number of HTTP calls,  *)
(* of grants, of write transactions; the store as it was at the call).     *)
(* A step is the code between two blocking calls: one store transaction or *)
(* one HTTP round trip, with the local code that follows it.  What the     *)
(* store, the identity provider, the registry and the streaming API answer *)
(* is chosen by the environment.                                           *)
(***************************************************************************)
EXTENDS Naturals, Sequences, FiniteSets, TLC

VARIABLES
    db,             \* ConfigBucket["twitchAccessToken"]: absent, or a byte string
    config,         \* c.Config: TwitchClientID, TwitchClientSecret
    procs,          \* the callers that run in this behaviour
    th,             \* th[p]: the frame of caller p
    everPersisted,  \* a value has been stored under the key at some time
    prev            \* the operation that returned last: name, argument, error, write

vars == <<db, config, procs, th, everPersisted, prev>>

----------------------------------------------------------------------------
(* Bounds *)

NumTokens == 2          \* distinct non-empty access tokens the provider issues
MaxPublishers == 2      \* length of the registry's publisher list
MaxStreams == 2         \* length of the "data" array of a response

Callers == {1, 2}

----------------------------------------------------------------------------
(* Values *)

defaultClientID == "abcd1234"
defaultClientSecret == "abcd1234"

NoErr == "nil"
ErrNotFound == "cached twitch access token not found in db"
ErrNoToken == "updateCachedAccessToken: no token provided"
ErrStatus == "token validation response status code != 200"
ErrClientID == "Default twitch client id value detected. Skipping twitch call"
ErrClientSecret == "Default twitch client secret value detected. Skipping twitch call"
\* errors of the collaborators
ErrTransport == "http: transport error"
ErrGrant == "oauth2: cannot fetch token"
ErrPut == "bolt: put failed"
ErrDecode == "json: cannot decode body"
ErrRegistry == "getAllPublisher: failed"

StatusOK == 200
Statuses == {StatusOK, 401}

Tokens == {"tok" \o ToString(i) : i \in 1..NumTokens}

\* the value stored under the key: b.Get gives nil for an absent key
Absent == [present |-> FALSE, val |-> ""]
Stored(t) == [present |-> TRUE, val |-> t]

ClientIDs == {defaultClientID, "client-id"}
ClientSecrets == {defaultClientSecret, "client-secret"}
Configs == [TwitchClientID : ClientIDs, TwitchClientSecret : ClientSecrets]

\* what http.DefaultClient.Do gives for the validation request
ValidateResponses ==
    {[err |-> ErrTransport, StatusCode |-> 0]}
        \cup {[err |-> NoErr, StatusCode |-> s] : s \in Statuses}

\* what oauth2Config.Token gives
NoGrant == [AccessToken |-> "", err |-> "none"]
GrantResults ==
    {[AccessToken |-> "", err |-> ErrGrant]}
        \cup {[AccessToken |-> t, err |-> NoErr] : t \in Tokens \cup {""}}

\* what the write transaction (b.Put, commit) gives
PutResults == {NoErr, ErrPut}

\* sequences over S of length at most n
SeqUpTo(S, n) == UNION {[1..k -> S] : k \in 0..n}

\* the publisher registry
Publishers == [Name : {"alice", "bob"}, TwitchStream : {"", "chan"}]
RegistryResults ==
    {[publishers |-> <<>>, err |-> ErrRegistry]}
        \cup {[publishers |-> ps, err |-> NoErr] : ps \in SeqUpTo(Publishers, MaxPublishers)}

\* the streaming-status API
StreamData ==
    {[ID |-> "1", UserName |-> "alice", ViewerCount |-> 10],
     [ID |-> "2", UserName |-> "bob", ViewerCount |-> 0]}
NoBody == [json |-> FALSE, hasData |-> FALSE, data |-> <<>>]
Bodies ==
    {NoBody, [json |-> TRUE, hasData |-> FALSE, data |-> <<>>]}
        \cup {[json |-> TRUE, hasData |-> TRUE, data |-> d] : d \in SeqUpTo(StreamData, MaxStreams)}
NoResp == [err |-> "none", StatusCode |-> 0, body |-> NoBody]
StreamResponses ==
    {[err |-> ErrTransport, StatusCode |-> 0, body |-> NoBody]}
        \cup {[err |-> NoErr, StatusCode |-> s, body |-> b] : s \in Statuses, b \in Bodies}
NoReq == [url |-> "", clientID |-> "", authorization |-> ""]

Ops == {"getCachedAccessToken", "updateCachedAccessToken", "validateAccessToken",
        "getNewAuthToken", "twitchAuthToken", "getStreams"}

NoPrev == [op |-> "none", arg |-> "", retErr |-> "none", putErr |-> "none"]

IdleFrame ==
    [pc |-> "idle", op |-> "none", arg |-> "", db0 |-> Absent,
     token |-> "", vErr |-> "none", grant |-> NoGrant, putErr |-> "none",
     accessToken |-> "", publishers |-> <<>>, userQuery |-> "",
     req |-> NoReq, resp |-> NoResp,
     retTok |-> "", retData |-> <<>>, retErr |-> "none",
     credErr |-> "none", authErr |-> "none", regErr |-> "none",
     nValidate |-> 0, nGrant |-> 0, nStreams |-> 0, nWrite |-> 0]

----------------------------------------------------------------------------
(* The functions of twitch.go *)

\* tx.Bucket(...).Get(key): the bytes stored, nil (no bytes) for an absent key
BucketGet(d) == IF d.present THEN d.val ELSE ""

\* getCachedAccessToken testing tokenBytes == nil instead of its length
getCachedAccessToken_NilOnly(d) ==
    IF ~d.present
    THEN [val |-> "", err |-> ErrNotFound]
    ELSE [val |-> BucketGet(d), err |-> NoErr]

getCachedAccessToken(d) ==
    LET tokenBytes == BucketGet(d)
    IN  IF Len(tokenBytes) < 1
        THEN [val |-> "", err |-> ErrNotFound]
        ELSE [val |-> tokenBytes, err |-> NoErr]

validateAccessToken(resp) ==
    IF resp.err # NoErr THEN resp.err
    ELSE IF resp.StatusCode # StatusOK THEN ErrStatus
    ELSE NoErr

\* validateClientCredentials without the test of the secret
validateClientCredentials_IDOnly(cfg) ==
    IF cfg.TwitchClientID = defaultClientID THEN ErrClientID ELSE NoErr

validateClientCredentials(cfg) ==
    IF cfg.TwitchClientID = defaultClientID THEN ErrClientID
    ELSE IF cfg.TwitchClientSecret = defaultClientSecret THEN ErrClientSecret
    ELSE NoErr

\* the top-level operation returns (tok, data, err) to its caller: its locals
\* are gone, what the invocation did (calls made, answers received) is kept
Done(f, tok, data, err) ==
    [f EXCEPT !.pc = "done", !.retTok = tok, !.retData = data, !.retErr = err,
              !.token = "", !.accessToken = "", !.publishers = <<>>,
              !.userQuery = "", !.req = NoReq]

\* twitchAuthToken returns (tok, err): to its caller, or into getStreams
Ret_twitchAuthToken(f, tok, err) ==
    IF f.op = "twitchAuthToken" THEN Done(f, tok, <<>>, err)
    ELSE IF err # NoErr THEN Done([f EXCEPT !.authErr = err], "", <<>>, err)
    ELSE [f EXCEPT !.authErr = err, !.accessToken = tok, !.pc = "L164"]

\* twitchAuthToken validating the refreshed token again: a loop
Ret_getNewAuthToken_Revalidate(f, err) ==
    IF f.op = "getNewAuthToken" THEN Done(f, "", <<>>, err)
    ELSE IF err # NoErr THEN Ret_twitchAuthToken(f, "", err)
    ELSE [f EXCEPT !.pc = "L133"]

\* getNewAuthToken returns err: to its caller, or into twitchAuthToken
Ret_getNewAuthToken(f, err) ==
    IF f.op = "getNewAuthToken" THEN Done(f, "", <<>>, err)
    ELSE IF err # NoErr THEN Ret_twitchAuthToken(f, "", err)
    ELSE [f EXCEPT !.pc = "L141"]

\* updateCachedAccessToken returns err: to its caller, or into getNewAuthToken
Ret_updateCachedAccessToken(f, err) ==
    IF f.op = "updateCachedAccessToken" THEN Done(f, "", <<>>, err)
    ELSE Ret_getNewAuthToken(f, err)

\* updateCachedAccessToken without the test of the empty token
updateCachedAccessToken_NoGuard(f, d, putErr) ==
    LET g == [f EXCEPT !.nWrite = @ + 1, !.putErr = putErr]
    IN  [f |-> Ret_updateCachedAccessToken(g, NoErr),
         db |-> IF putErr = NoErr THEN Stored(f.arg) ELSE d]

\* updateCachedAccessToken putting the token under another key
updateCachedAccessToken_WrongKey(f, d, putErr) ==
    IF f.arg = ""
    THEN [f |-> Ret_updateCachedAccessToken(f, ErrNoToken), db |-> d]
    ELSE LET g == [f EXCEPT !.nWrite = @ + 1, !.putErr = putErr]
         IN  [f |-> Ret_updateCachedAccessToken(g, NoErr), db |-> d]

\* updateCachedAccessToken with the test of the empty token inverted
updateCachedAccessToken_GuardInverted(f, d, putErr) ==
    IF f.arg # ""
    THEN [f |-> Ret_updateCachedAccessToken(f, ErrNoToken), db |-> d]
    ELSE LET g == [f EXCEPT !.nWrite = @ + 1, !.putErr = putErr]
         IN  [f |-> Ret_updateCachedAccessToken(g, NoErr),
              db |-> IF putErr = NoErr THEN Stored(f.arg) ELSE d]

\* updateCachedAccessToken whose failed write leaves the key deleted
updateCachedAccessToken_ClearOnFailure(f, d, putErr) ==
    IF f.arg = ""
    THEN [f |-> Ret_updateCachedAccessToken(f, ErrNoToken), db |-> d]
    ELSE LET g == [f EXCEPT !.nWrite = @ + 1, !.putErr = putErr]
         IN  [f |-> Ret_updateCachedAccessToken(g, NoErr),
              db |-> IF putErr = NoErr THEN Stored(f.arg) ELSE Absent]

\* updateCachedAccessToken(f.arg), the write transaction answering putErr
updateCachedAccessToken(f, d, putErr) ==
    IF f.arg = ""
    THEN [f |-> Ret_updateCachedAccessToken(f, ErrNoToken), db |-> d]
    ELSE LET g == [f EXCEPT !.nWrite = @ + 1, !.putErr = putErr]
         IN  [f |-> Ret_updateCachedAccessToken(g, NoErr),
              db |-> IF putErr = NoErr THEN Stored(f.arg) ELSE d]

\* getNewAuthToken dropping the error of the grant
getNewAuthToken_IgnoreErr(f, g) ==
    LET h == [f EXCEPT !.nGrant = @ + 1, !.grant = g]
    IN  IF g.err # NoErr THEN Ret_getNewAuthToken(h, NoErr)
        ELSE [h EXCEPT !.arg = g.AccessToken, !.pc = "L56"]

\* getNewAuthToken up to the grant, the token endpoint answering g
getNewAuthToken(f, g) ==
    LET h == [f EXCEPT !.nGrant = @ + 1, !.grant = g]
    IN  IF g.err # NoErr THEN Ret_getNewAuthToken(h, g.err)
        ELSE [h EXCEPT !.arg = g.AccessToken, !.pc = "L56"]

\* twitchAuthToken refreshing when the first read finds no token
twitchAuthToken_read_ColdRefresh(f, d) ==
    LET r == getCachedAccessToken(d)
    IN  IF r.err # NoErr THEN [f EXCEPT !.pc = "L97"]
        ELSE [f EXCEPT !.token = r.val, !.pc = "L133"]

\* twitchAuthToken, lines 128-131: the first read of the cache
twitchAuthToken_read(f, d) ==
    LET r == getCachedAccessToken(d)
    IN  IF r.err # NoErr THEN Ret_twitchAuthToken(f, "", r.err)
        ELSE [f EXCEPT !.token = r.val, !.pc = "L133"]

\* twitchAuthToken refreshing whatever the validation says
twitchAuthToken_validate_AlwaysRefresh(f, resp) ==
    LET err == validateAccessToken(resp)
        g == [f EXCEPT !.nValidate = @ + 1, !.vErr = err]
    IN  [g EXCEPT !.pc = "L97"]

\* twitchAuthToken going on to the re-read whatever the validation says
twitchAuthToken_validate_NeverRefresh(f, resp) ==
    LET err == validateAccessToken(resp)
        g == [f EXCEPT !.nValidate = @ + 1, !.vErr = err]
    IN  [g EXCEPT !.pc = "L141"]

\* twitchAuthToken, lines 133-134: validate, refresh when it fails
twitchAuthToken_validate(f, resp) ==
    LET err == validateAccessToken(resp)
        g == [f EXCEPT !.nValidate = @ + 1, !.vErr = err]
    IN  IF err # NoErr THEN [g EXCEPT !.pc = "L97"] ELSE [g EXCEPT !.pc = "L141"]

\* twitchAuthToken, lines 141-146: the second read of the cache
twitchAuthToken_reread(f, d) ==
    LET r == getCachedAccessToken(d)
    IN  IF r.err # NoErr THEN Ret_twitchAuthToken(f, "", r.err)
        ELSE Ret_twitchAuthToken([f EXCEPT !.token = r.val], r.val, NoErr)

\* getStreams, lines 154-157
getStreams_credentials(f, cfg) ==
    LET err == validateClientCredentials(cfg)
        g == [f EXCEPT !.credErr = err]
    IN  IF err # NoErr THEN Done(g, "", <<>>, err) ELSE [g EXCEPT !.pc = "L128"]

\* the loop writing the stream channel, not the name, into the query
RECURSIVE userQueryLoop_ByChannel(_, _, _)
userQueryLoop_ByChannel(publishers, i, userQuery) ==
    IF i > Len(publishers) THEN userQuery
    ELSE IF publishers[i].TwitchStream = ""
         THEN userQueryLoop_ByChannel(publishers, i + 1, userQuery)
         ELSE userQueryLoop_ByChannel(publishers, i + 1,
                  (IF userQuery # "" THEN userQuery \o "&" ELSE userQuery)
                      \o "user_login=" \o publishers[i].TwitchStream)

\* getStreams, lines 169-177: the loop over the publishers from index i
RECURSIVE userQueryLoop(_, _, _)
userQueryLoop(publishers, i, userQuery) ==
    IF i > Len(publishers) THEN userQuery
    ELSE IF publishers[i].TwitchStream = ""
         THEN userQueryLoop(publishers, i + 1, userQuery)
         ELSE userQueryLoop(publishers, i + 1,
                  (IF userQuery # "" THEN userQuery \o "&" ELSE userQuery)
                      \o "user_login=" \o publishers[i].Name)

\* getStreams going on to the request when the registry fails
getStreams_publishers_IgnoreErr(f, cfg, r) ==
    LET userQuery == userQueryLoop(r.publishers, 1, "")
    IN  [f EXCEPT !.regErr = r.err,
                  !.publishers = r.publishers,
                  !.userQuery = userQuery,
                  !.req = [url |-> "https://api.twitch.tv/helix/streams/?" \o userQuery,
                           clientID |-> cfg.TwitchClientID,
                           authorization |-> "Bearer " \o f.accessToken],
                  !.pc = "L189"]

\* getStreams, lines 164-187: the registry answering r, then the request
getStreams_publishers(f, cfg, r) ==
    IF r.err # NoErr THEN Done([f EXCEPT !.regErr = r.err], "", <<>>, r.err)
    ELSE LET userQuery == userQueryLoop(r.publishers, 1, "")
         IN  [f EXCEPT !.regErr = r.err,
                       !.publishers = r.publishers,
                       !.userQuery = userQuery,
                       !.req = [url |-> "https://api.twitch.tv/helix/streams/?" \o userQuery,
                                clientID |-> cfg.TwitchClientID,
                                authorization |-> "Bearer " \o f.accessToken],
                       !.pc = "L189"]

\* json.NewDecoder(resp.Body).Decode(&streamResponse)
Decode(body) ==
    IF ~body.json THEN [Data |-> <<>>, err |-> ErrDecode]
    ELSE IF body.hasData THEN [Data |-> body.data, err |-> NoErr]
    ELSE [Data |-> <<>>, err |-> NoErr]

\* getStreams reporting an empty result as an error
getStreams_request_EmptyIsError(f, resp) ==
    LET g == [f EXCEPT !.nStreams = @ + 1, !.resp = resp]
    IN  IF resp.err # NoErr THEN Done(g, "", <<>>, resp.err)
        ELSE LET streamResponse == Decode(resp.body)
             IN  IF streamResponse.err # NoErr THEN Done(g, "", <<>>, streamResponse.err)
                 ELSE IF Len(streamResponse.Data) = 0 THEN Done(g, "", <<>>, ErrDecode)
                 ELSE Done(g, "", streamResponse.Data, NoErr)

\* getStreams returning an error for a status other than 200
getStreams_request_StatusChecked(f, resp) ==
    LET g == [f EXCEPT !.nStreams = @ + 1, !.resp = resp]
    IN  IF resp.err # NoErr THEN Done(g, "", <<>>, resp.err)
        ELSE IF resp.StatusCode # StatusOK THEN Done(g, "", <<>>, ErrStatus)
        ELSE LET streamResponse == Decode(resp.body)
             IN  IF streamResponse.err # NoErr THEN Done(g, "", <<>>, streamResponse.err)
                 ELSE Done(g, "", streamResponse.Data, NoErr)

\* getStreams, lines 189-208: the API answering resp
getStreams_request(f, resp) ==
    LET g == [f EXCEPT !.nStreams = @ + 1, !.resp = resp]
    IN  IF resp.err # NoErr THEN Done(g, "", <<>>, resp.err)
        ELSE LET streamResponse == Decode(resp.body)
             IN  IF streamResponse.err # NoErr THEN Done(g, "", <<>>, streamResponse.err)
                 ELSE Done(g, "", streamResponse.Data, NoErr)

----------------------------------------------------------------------------
(* Actions *)

Entry(op) ==
    CASE op = "getCachedAccessToken" -> "L42"
      [] op = "updateCachedAccessToken" -> "L56"
      [] op = "validateAccessToken" -> "L68"
      [] op = "getNewAuthToken" -> "L97"
      [] op = "twitchAuthToken" -> "L128"
      [] op = "getStreams" -> "L154"

Args(op) ==
    CASE op = "updateCachedAccessToken" -> Tokens \cup {""}
      [] op = "validateAccessToken" -> Tokens
      [] OTHER -> {""}

\* caller p calls op(arg)
Call(p) ==
    /\ th[p].pc = "idle"
    /\ \E op \in Ops : \E a \in Args(op) :
          th' = [th EXCEPT ![p] = [IdleFrame EXCEPT !.pc = Entry(op), !.op = op,
                                                    !.arg = a, !.db0 = db]]
    /\ UNCHANGED <<db, config, procs, everPersisted, prev>>

\* the caller of a top-level operation takes its result
Return(p) ==
    /\ th[p].pc = "done"
    /\ th' = [th EXCEPT ![p] = IdleFrame]
    /\ prev' = [op |-> th[p].op, arg |-> th[p].arg, retErr |-> th[p].retErr,
                putErr |-> th[p].putErr]
    /\ UNCHANGED <<db, config, procs, everPersisted>>

\* getCachedAccessToken called on its own
Step_getCachedAccessToken(p) ==
    /\ th[p].pc = "L42"
    /\ LET r == getCachedAccessToken(db)
       IN  th' = [th EXCEPT ![p] = Done(th[p], r.val, <<>>, r.err)]
    /\ UNCHANGED <<db, config, procs, everPersisted, prev>>

Step_updateCachedAccessToken(p) ==
    /\ th[p].pc = "L56"
    /\ \E putErr \in PutResults :
          LET r == updateCachedAccessToken(th[p], db, putErr)
          IN  /\ th' = [th EXCEPT ![p] = r.f]
              /\ db' = r.db
              /\ everPersisted' = (everPersisted \/ r.db.present)
    /\ UNCHANGED <<config, procs, prev>>

\* validateAccessToken called on its own
Step_validateAccessToken(p) ==
    /\ th[p].pc = "L68"
    /\ \E resp \in ValidateResponses :
          LET err == validateAccessToken(resp)
          IN  th' = [th EXCEPT ![p] =
                        Done([th[p] EXCEPT !.nValidate = @ + 1, !.vErr = err], "", <<>>, err)]
    /\ UNCHANGED <<db, config, procs, everPersisted, prev>>

Step_getNewAuthToken(p) ==
    /\ th[p].pc = "L97"
    /\ \E g \in GrantResults : th' = [th EXCEPT ![p] = getNewAuthToken(th[p], g)]
    /\ UNCHANGED <<db, config, procs, everPersisted, prev>>

Step_twitchAuthToken_read(p) ==
    /\ th[p].pc = "L128"
    /\ th' = [th EXCEPT ![p] = twitchAuthToken_read(th[p], db)]
    /\ UNCHANGED <<db, config, procs, everPersisted, prev>>

Step_twitchAuthToken_validate(p) ==
    /\ th[p].pc = "L133"
    /\ \E resp \in ValidateResponses :
          th' = [th EXCEPT ![p] = twitchAuthToken_validate(th[p], resp)]
    /\ UNCHANGED <<db, config, procs, everPersisted, prev>>

Step_twitchAuthToken_reread(p) ==
    /\ th[p].pc = "L141"
    /\ th' = [th EXCEPT ![p] = twitchAuthToken_reread(th[p], db)]
    /\ UNCHANGED <<db, config, procs, everPersisted, prev>>

Step_getStreams_credentials(p) ==
    /\ th[p].pc = "L154"
    /\ th' = [th EXCEPT ![p] = getStreams_credentials(th[p], config)]
    /\ UNCHANGED <<db, config, procs, everPersisted, prev>>

Step_getStreams_publishers(p) ==
    /\ th[p].pc = "L164"
    /\ \E r \in RegistryResults :
          th' = [th EXCEPT ![p] = getStreams_publishers(th[p], config, r)]
    /\ UNCHANGED <<db, config, procs, everPersisted, prev>>

Step_getStreams_request(p) ==
    /\ th[p].pc = "L189"
    /\ \E resp \in StreamResponses :
          th' = [th EXCEPT ![p] = getStreams_request(th[p], resp)]
    /\ UNCHANGED <<db, config, procs, everPersisted, prev>>

Next ==
    \/ \E p \in procs : Call(p)
    \/ \E p \in procs : Return(p)
    \/ \E p \in procs : Step_getCachedAccessToken(p)
    \/ \E p \in procs : Step_updateCachedAccessToken(p)
    \/ \E p \in procs : Step_validateAccessToken(p)
    \/ \E p \in procs : Step_getNewAuthToken(p)
    \/ \E p \in procs : Step_twitchAuthToken_read(p)
    \/ \E p \in procs : Step_twitchAuthToken_validate(p)
    \/ \E p \in procs : Step_twitchAuthToken_reread(p)
    \/ \E p \in procs : Step_getStreams_credentials(p)
    \/ \E p \in procs : Step_getStreams_publishers(p)
    \/ \E p \in procs : Step_getStreams_request(p)

\* a fresh database, one caller
Init ==
    /\ db = Absent
    /\ config \in Configs
    /\ procs = {1}
    /\ th = [p \in Callers |-> IdleFrame]
    /\ everPersisted = FALSE
    /\ prev = NoPrev

Spec == Init /\ [][Next]_vars

\* a database left by an earlier run (any content of the key), one caller
StoreContents == {Absent} \cup {Stored(t) : t \in Tokens \cup {""}}

InitStore ==
    /\ db \in StoreContents
    /\ config \in Configs
    /\ procs = {1}
    /\ th = [p \in Callers |-> IdleFrame]
    /\ everPersisted = db.present
    /\ prev = NoPrev

SpecStore == InitStore /\ [][Next]_vars

\* caller p calls twitchAuthToken
Call_twitchAuthToken(p) ==
    /\ th[p].pc = "idle"
    /\ th' = [th EXCEPT ![p] = [IdleFrame EXCEPT !.pc = Entry("twitchAuthToken"),
                                                !.op = "twitchAuthToken", !.db0 = db]]
    /\ UNCHANGED <<db, config, procs, everPersisted, prev>>

\* the token lifecycle alone: invocations of twitchAuthToken
NextConc ==
    \/ \E p \in procs : Call_twitchAuthToken(p)
    \/ \E p \in procs : Return(p)
    \/ \E p \in procs : Step_twitchAuthToken_read(p)
    \/ \E p \in procs : Step_twitchAuthToken_validate(p)
    \/ \E p \in procs : Step_getNewAuthToken(p)
    \/ \E p \in procs : Step_updateCachedAccessToken(p)
    \/ \E p \in procs : Step_twitchAuthToken_reread(p)

\* a cached token, configured credentials, and one caller or two callers that
\* run twitchAuthToken on the same store with no lock between them
InitConc ==
    /\ db \in {Stored(t) : t \in Tokens}
    /\ config = [TwitchClientID |-> "client-id", TwitchClientSecret |-> "client-secret"]
    /\ procs \in {{1}, Callers}
    /\ th = [p \in Callers |-> IdleFrame]
    /\ everPersisted = TRUE
    /\ prev = NoPrev

SpecConc == InitConc /\ [][NextConc]_vars

\* caller p calls an operation other than updateCachedAccessToken, which this
\* file calls from getNewAuthToken only (line 103)
Call_operation(p) ==
    /\ th[p].pc = "idle"
    /\ \E op \in Ops \ {"updateCachedAccessToken"} : \E a \in Args(op) :
          th' = [th EXCEPT ![p] = [IdleFrame EXCEPT !.pc = Entry(op), !.op = op,
                                                    !.arg = a, !.db0 = db]]
    /\ UNCHANGED <<db, config, procs, everPersisted, prev>>

\* the operations as this file calls them: the store is written by a refresh only
NextOps ==
    \/ \E p \in procs : Call_operation(p)
    \/ \E p \in procs : Return(p)
    \/ \E p \in procs : Step_getCachedAccessToken(p)
    \/ \E p \in procs : Step_updateCachedAccessToken(p)
    \/ \E p \in procs : Step_validateAccessToken(p)
    \/ \E p \in procs : Step_getNewAuthToken(p)
    \/ \E p \in procs : Step_twitchAuthToken_read(p)
    \/ \E p \in procs : Step_twitchAuthToken_validate(p)
    \/ \E p \in procs : Step_twitchAuthToken_reread(p)
    \/ \E p \in procs : Step_getStreams_credentials(p)
    \/ \E p \in procs : Step_getStreams_publishers(p)
    \/ \E p \in procs : Step_getStreams_request(p)

SpecOps == InitStore /\ [][NextOps]_vars

----------------------------------------------------------------------------
(* Properties *)

\* the store holds a token: the key is present with at least one byte
HasToken(d) == d.present /\ d.val # ""

\* C1: in an invocation of twitchAuthToken by a single caller whose cached
\* token passed validation (status 200), no grant is made and nothing is
\* written, the store is as it was at the call, and the invocation goes on to
\* return, with no error, the token that was cached at the call.
C1_ValidTokenNoRefresh ==
    \A p \in procs :
        LET f == th[p]
        IN  (f.op = "twitchAuthToken" /\ HasToken(f.db0) /\ f.vErr = NoErr) =>
                /\ f.nValidate = 1
                /\ f.nGrant = 0
                /\ f.nWrite = 0
                /\ db = f.db0
                /\ f.pc \in {"L141", "done"}
                /\ f.pc = "done" => (f.retErr = NoErr /\ f.retTok = f.db0.val)

C1_Witness ==
    \E p \in procs :
        /\ th[p].op = "twitchAuthToken"
        /\ th[p].pc = "done"
        /\ th[p].vErr = NoErr
        /\ th[p].retErr = NoErr
        /\ th[p].retTok \in Tokens

\* C2: when an invocation of twitchAuthToken by a single caller has returned
\* and its cached token failed validation, exactly one grant was made, and if
\* it returned no error, the token returned is the one the grant gave and the
\* store holds that token.
C2_RefreshedTokenReturned ==
    \A p \in procs :
        LET f == th[p]
        IN  (f.op = "twitchAuthToken" /\ f.pc = "done" /\ HasToken(f.db0)
                /\ f.vErr \notin {"none", NoErr}) =>
                /\ f.nGrant = 1
                /\ f.retErr = NoErr =>
                       (f.retTok = f.grant.AccessToken /\ db = Stored(f.grant.AccessToken))

\* C3: once twitchAuthToken, called with no token in the store (key absent or
\* a value of length zero), has made its first read, it has returned the
\* not-found error and no token, with no validation call, no grant and no
\* write, and the store still holds no token.
C3_ColdStartFails ==
    \A p \in procs :
        LET f == th[p]
        IN  (f.op = "twitchAuthToken" /\ ~HasToken(f.db0) /\ f.pc # "L128") =>
                /\ f.pc = "done"
                /\ f.retErr = ErrNotFound
                /\ f.retTok = ""
                /\ f.nValidate = 0
                /\ f.nGrant = 0
                /\ f.nWrite = 0
                /\ db = f.db0
                /\ ~HasToken(db)

C3_Witness ==
    \E p \in procs :
        /\ th[p].op = "twitchAuthToken"
        /\ th[p].pc = "done"
        /\ th[p].db0 = Stored("")
        /\ th[p].retErr = ErrNotFound

\* C4: once getStreams, with the client id or the client secret equal to its
\* placeholder, has made its credential check, it has returned a configuration
\* error and no stream, having made no HTTP call: no validation, no grant, no
\* streaming-status request.
C4_PlaceholderNoHTTP ==
    \A p \in procs :
        LET f == th[p]
        IN  (/\ f.op = "getStreams"
             /\ f.pc # "L154"
             /\ \/ config.TwitchClientID = defaultClientID
                \/ config.TwitchClientSecret = defaultClientSecret) =>
                /\ f.pc = "done"
                /\ f.retErr \in {ErrClientID, ErrClientSecret}
                /\ f.retData = <<>>
                /\ f.nValidate = 0
                /\ f.nGrant = 0
                /\ f.nStreams = 0

C4_Witness ==
    \E p \in procs :
        /\ th[p].op = "getStreams"
        /\ th[p].pc = "done"
        /\ config.TwitchClientID # defaultClientID
        /\ config.TwitchClientSecret = defaultClientSecret
        /\ th[p].retErr = ErrClientSecret

\* C5: an operation in which the write transaction of updateCachedAccessToken
\* failed returns that error to its caller.
C5_WriteFailureReported ==
    \A p \in procs :
        (th[p].pc = "done" /\ th[p].putErr = ErrPut) => th[p].retErr = ErrPut

C7_EmptyTokenRejected ==
    \A p \in procs :
        LET f == th[p]
        IN  (f.op = "updateCachedAccessToken" /\ f.arg = "" /\ f.pc # "L56") =>
                /\ f.pc = "done"
                /\ f.retErr = ErrNoToken
                /\ f.nWrite = 0
                /\ f.putErr = "none"
                /\ db = f.db0

C7_Witness ==
    \E p \in procs :
        /\ th[p].op = "updateCachedAccessToken"
        /\ th[p].arg = ""
        /\ th[p].pc = "done"
        /\ th[p].db0.val \in Tokens
        /\ db = th[p].db0

\* C8: getCachedAccessToken returns the not-found error when nothing was ever
\* stored and when the stored value has length zero, and returns the stored
\* value with no error exactly when that value is not empty.
C8_ReadCachedToken ==
    \A p \in procs :
        LET f == th[p]
        IN  (f.op = "getCachedAccessToken" /\ f.pc = "done") =>
                /\ ~everPersisted => f.retErr = ErrNotFound
                /\ (f.retErr = NoErr) <=> HasToken(db)
                /\ f.retErr = NoErr => f.retTok = db.val
                /\ f.retErr # NoErr => (f.retErr = ErrNotFound /\ f.retTok = "")

C8_Witness ==
    \E p \in procs :
        /\ th[p].op = "getCachedAccessToken"
        /\ th[p].pc = "done"
        /\ db = Stored("")
        /\ th[p].retErr = ErrNotFound

\* C9: when the grant fails, the operation (getNewAuthToken, and twitchAuthToken
\* or getStreams around it) has returned the grant's error and no token, after
\* one grant and no write, and the store is as it was at the call.
C9_GrantFailurePropagates ==
    \A p \in procs :
        LET f == th[p]
        IN  f.grant.err \notin {"none", NoErr} =>
                /\ f.pc = "done"
                /\ f.retErr = f.grant.err
                /\ f.retTok = ""
                /\ f.retData = <<>>
                /\ f.nGrant = 1
                /\ f.nWrite = 0
                /\ db = f.db0

C9_Witness ==
    \E p \in procs :
        /\ th[p].op = "twitchAuthToken"
        /\ th[p].pc = "done"
        /\ th[p].db0.val \in Tokens
        /\ th[p].grant.err = ErrGrant
        /\ th[p].retErr = ErrGrant

\* C10: the key is absent or holds one string of at least one byte; the empty
\* string is never stored, also when a grant gives an empty access token.
C10_StoreInvariant ==
    \/ db = Absent
    \/ db.present /\ Len(db.val) >= 1

C10_Witness ==
    \E p \in procs :
        /\ th[p].op = "getNewAuthToken"
        /\ th[p].pc = "done"
        /\ th[p].grant = [AccessToken |-> "", err |-> NoErr]
        /\ th[p].retErr = ErrNoToken
        /\ db.val \in Tokens

\* C11: the token is never deleted: a step taken from a state in which the
\* store holds a non-empty token leads to a state in which it holds a non-empty
\* token (the same one, or the one a later write put in its place).
C11_NeverDeleted == [][HasToken(db) => HasToken(db')]_vars

\* a refresh has overwritten the token that was stored
C11_Witness ==
    \E p \in procs :
        /\ th[p].op = "twitchAuthToken"
        /\ th[p].pc = "done"
        /\ HasToken(th[p].db0)
        /\ HasToken(db)
        /\ db # th[p].db0

\* an error: neither "no answer yet" nor nil
Failed(e) == e \notin {"none", NoErr}

\* C12: getStreams runs its steps in order and stops at the first error: it
\* makes at most one streaming-status request, and is about to make it or has
\* made it only when the credential check passed, twitchAuthToken returned a
\* token with no error and the registry returned its list; when one of the
\* three fails, no request is made and getStreams returns that step's error.
C12_StepsShortCircuit ==
    \A p \in procs :
        LET f == th[p]
        IN  f.op = "getStreams" =>
                /\ f.nStreams <= 1
                /\ (f.pc = "L189" \/ f.nStreams = 1) =>
                       /\ f.credErr = NoErr
                       /\ f.authErr = NoErr
                       /\ f.regErr = NoErr
                /\ f.pc = "L189" => (f.nStreams = 0 /\ f.accessToken # "")
                /\ f.nStreams = 1 => f.pc = "done"
                /\ Failed(f.credErr) =>
                       (f.pc = "done" /\ f.nStreams = 0 /\ f.retErr = f.credErr
                            /\ f.authErr = "none" /\ f.regErr = "none")
                /\ Failed(f.authErr) =>
                       (f.pc = "done" /\ f.nStreams = 0 /\ f.retErr = f.authErr
                            /\ f.regErr = "none")
                /\ Failed(f.regErr) =>
                       (f.pc = "done" /\ f.nStreams = 0 /\ f.retErr = f.regErr)

\* the registry failed after the token was obtained: no request was made
C12_Witness ==
    \E p \in procs :
        /\ th[p].op = "getStreams"
        /\ th[p].pc = "done"
        /\ th[p].credErr = NoErr
        /\ th[p].authErr = NoErr
        /\ th[p].regErr = ErrRegistry
        /\ th[p].retErr = ErrRegistry
        /\ th[p].nStreams = 0

\* the publishers that have a stream channel, in registry order
WithChannel(ps) == SelectSeq(ps, LAMBDA pb : pb.TwitchStream # "")

\* one user_login=<Name> term per publisher of ps, joined by "&"
RECURSIVE JoinTerms(_)
JoinTerms(ps) ==
    IF ps = <<>> THEN ""
    ELSE IF Len(ps) = 1 THEN "user_login=" \o ps[1].Name
    ELSE "user_login=" \o ps[1].Name \o "&" \o JoinTerms(Tail(ps))

\* C13: when getStreams is about to send its request, the query string holds
\* one user_login=<Name> term, joined by "&" and in registry order, for exactly
\* the publishers whose TwitchStream is not empty (the value is the Name, a
\* repeated name gives a repeated term), and the URL ends with that string.
C13_QueryString ==
    \A p \in procs :
        LET f == th[p]
        IN  (f.op = "getStreams" /\ f.pc = "L189") =>
                /\ f.userQuery = JoinTerms(WithChannel(f.publishers))
                /\ f.req.url = "https://api.twitch.tv/helix/streams/?" \o f.userQuery

C13_Witness ==
    \E p \in procs :
        /\ th[p].op = "getStreams"
        /\ th[p].pc = "L189"
        /\ th[p].publishers = <<[Name |-> "alice", TwitchStream |-> ""],
                                [Name |-> "bob", TwitchStream |-> "chan"]>>
        /\ th[p].userQuery = "user_login=bob"

\* C14: when the streaming-status call gave a response and its body decoded,
\* getStreams returns no error and the records of the body's "data" array, all
\* of them and in the order of the response; an empty array gives an empty
\* list and no error.
C14_DecodedRecordsReturned ==
    \A p \in procs :
        LET f == th[p]
        IN  (/\ f.op = "getStreams"
             /\ f.pc = "done"
             /\ f.nStreams = 1
             /\ f.resp.err = NoErr
             /\ f.resp.body.json
             /\ f.resp.body.hasData) =>
                /\ f.retErr = NoErr
                /\ f.retData = f.resp.body.data
                /\ Len(f.retData) = Len(f.resp.body.data)
                /\ \A i \in 1..Len(f.retData) : f.retData[i] = f.resp.body.data[i]

\* two different records, returned in the order of the response
C14_Witness ==
    \E p \in procs :
        /\ th[p].op = "getStreams"
        /\ th[p].pc = "done"
        /\ th[p].resp.StatusCode = StatusOK
        /\ Len(th[p].resp.body.data) = 2
        /\ th[p].resp.body.data[1].UserName = "bob"
        /\ th[p].resp.body.data[2].UserName = "alice"
        /\ th[p].retErr = NoErr
        /\ th[p].retData = th[p].resp.body.data

\* C15: nothing holds back a second refresh.  With one or two callers running
\* twitchAuthToken on the same store, a caller whose validation failed has its
\* own grant ahead of it or has made it, whatever the other caller has done;
\* and a write of it that succeeds puts its token in the store, over whatever
\* was there.  (The witness is the interleaving with the duplicate refresh.)
C15_NoMutualExclusion ==
    /\ [](\A p \in procs :
              (th[p].op = "twitchAuthToken" /\ Failed(th[p].vErr)) =>
                  \/ th[p].pc = "L97" /\ th[p].nGrant = 0
                  \/ th[p].nGrant = 1)
    /\ [][\A p \in procs :
              (th[p].pc = "L56" /\ th'[p].pc # "L56" /\ th'[p].putErr = NoErr) =>
                  db' = Stored(th[p].grant.AccessToken)]_vars

\* both callers found the same cached token invalid, both made a grant, and
\* both wrote the token they were granted
C15_Witness ==
    /\ procs = {1, 2}
    /\ th[1].db0 = th[2].db0
    /\ th[1].grant.AccessToken # th[2].grant.AccessToken
    /\ \A p \in procs :
          /\ th[p].op = "twitchAuthToken"
          /\ th[p].pc = "done"
          /\ Failed(th[p].vErr)
          /\ th[p].nGrant = 1
          /\ th[p].nWrite = 1
          /\ th[p].putErr = NoErr

\* C16, the single caller: with one caller, an invocation of twitchAuthToken
\* that made a grant and returned no error returns the token of its own grant.
C16_SingleCallerReturnsOwnGrant ==
    procs = {1} =>
        \A p \in procs :
            LET f == th[p]
            IN  (f.op = "twitchAuthToken" /\ f.pc = "done" /\ f.nGrant = 1
                    /\ f.retErr = NoErr) =>
                    f.retTok = f.grant.AccessToken

\* C16, two callers: an invocation that made a grant and wrote its token
\* returns another token, the one the other caller wrote before the re-read
C16_Witness ==
    /\ procs = {1, 2}
    /\ \E p \in procs :
          /\ th[p].op = "twitchAuthToken"
          /\ th[p].pc = "done"
          /\ th[p].nGrant = 1
          /\ th[p].putErr = NoErr
          /\ th[p].retErr = NoErr
          /\ th[p].retTok # th[p].grant.AccessToken
          /\ \E q \in procs \ {p} :
                /\ th[q].putErr = NoErr
                /\ th[q].grant.AccessToken = th[p].retTok

\* C17: the stored value changes only in the write of a refresh whose grant
\* gave, with no error, a non-empty access token, and it becomes that token;
\* every other step (the reads, the validation, a failed grant, a rejected or
\* failed write, the steps of getStreams) leaves it as it was.
C17_OnlyRefreshWrites ==
    [][db' # db =>
          \E p \in procs :
              /\ th[p].pc = "L56"
              /\ th'[p].pc # "L56"
              /\ th[p].op \in {"getNewAuthToken", "twitchAuthToken", "getStreams"}
              /\ th[p].nGrant = 1
              /\ th[p].grant.err = NoErr
              /\ th[p].grant.AccessToken # ""
              /\ db' = Stored(th[p].grant.AccessToken)]_vars

\* getStreams has refreshed the token: the store holds the granted token
C17_Witness ==
    \E p \in procs :
        /\ th[p].op = "getStreams"
        /\ th[p].pc = "done"
        /\ th[p].nStreams = 1
        /\ th[p].putErr = NoErr
        /\ db # th[p].db0
        /\ db = Stored(th[p].grant.AccessToken)

\* C18: an invocation of twitchAuthToken makes at most one validation call,
\* at most one grant (only after a failed validation) and at most one write;
\* a token it returns with no error is the cached token that passed the one
\* validation, or, after a refresh, the token read from the store, which no
\* validation call has seen.
C18_OneValidationOneGrant ==
    \A p \in procs :
        LET f == th[p]
        IN  f.op = "twitchAuthToken" =>
                /\ f.nValidate <= 1
                /\ f.nGrant <= 1
                /\ f.nWrite <= 1
                /\ f.nGrant = 1 => (f.nValidate = 1 /\ Failed(f.vErr))
                /\ (f.pc = "done" /\ f.retErr = NoErr) =>
                       /\ f.nValidate = 1
                       /\ \/ f.vErr = NoErr /\ f.nGrant = 0 /\ f.retTok = f.db0.val
                          \/ /\ Failed(f.vErr)
                             /\ f.nGrant = 1
                             /\ f.grant.err = NoErr
                             /\ HasToken(db)
                             /\ f.retTok = db.val

\* a refreshed token returned after the one validation, that of the old token
C18_Witness ==
    \E p \in procs :
        /\ th[p].op = "twitchAuthToken"
        /\ th[p].pc = "done"
        /\ th[p].retErr = NoErr
        /\ th[p].nValidate = 1
        /\ th[p].nGrant = 1
        /\ th[p].retTok = th[p].grant.AccessToken
        /\ th[p].retTok # th[p].db0.val

\* C19: getStreams does not look at the status of the streaming-status
\* response.  Once the request is made getStreams has returned: with an error
\* exactly when the transport failed or the body did not decode, and, for a
\* body that is JSON with no "data" array, with an empty list and no error,
\* also for a status other than 200; the response starts no refresh (the grants
\* made are those the validation asked for before the request).
C19_StatusNotInspected ==
    \A p \in procs :
        LET f == th[p]
        IN  (f.op = "getStreams" /\ f.nStreams = 1) =>
                /\ f.pc = "done"
                /\ (f.retErr # NoErr) <=> (f.resp.err # NoErr \/ ~f.resp.body.json)
                /\ f.resp.err # NoErr => f.retErr = f.resp.err
                /\ (f.resp.err = NoErr /\ ~f.resp.body.json) => f.retErr = ErrDecode
                /\ (f.resp.err = NoErr /\ f.resp.body.json /\ ~f.resp.body.hasData) =>
                       (f.retErr = NoErr /\ f.retData = <<>>)
                /\ f.nValidate = 1
                /\ f.nGrant = (IF Failed(f.vErr) THEN 1 ELSE 0)

\* a 401 with a JSON body that has no "data": an empty list, no error, no grant
C19_Witness ==
    \E p \in procs :
        /\ th[p].op = "getStreams"
        /\ th[p].pc = "done"
        /\ th[p].resp.err = NoErr
        /\ th[p].resp.StatusCode = 401
        /\ th[p].resp.body.json
        /\ ~th[p].resp.body.hasData
        /\ th[p].retErr = NoErr
        /\ th[p].retData = <<>>
        /\ th[p].nGrant = 0

====
